---- MODULE Spec2Model ----
(***************************************************************************)
(* Model of src/main.py (strava-weather): main() refreshes a token, lists  *)
(* the recent activities, and for each one fetches its details, the        *)
(* weather of its start hour, and appends a weather line to the remote     *)
(* description.  One action per HTTP request / step of main(); the remote  *)
(* descriptions are the only state that survives from one run to the next. *)
(*                                                                         *)
(* Strings are sequences of tokens.  The emoji of the source are written   *)
(* with ASCII names: THERMO is the thermometer emoji that                  *)
(* update_activity_description looks for, SUN, DROP and WIND the others.   *)
(***************************************************************************)
EXTENDS Integers, Sequences, FiniteSets, TLC

VARIABLES remote, desc, wx, run, pc, activities, idx, details,
          weather_string, trace, putBy

vars == <<remote, desc, wx, run, pc, activities, idx, details,
          weather_string, trace, putBy>>

\* ---------------------------------------------------------------- bounds
MaxActs == 2
MaxRunActs == 1
MaxRuns == 2
MaxRemote == 7

\* ------------------------------------------------------------- constants
PerPage == 5
DefaultPerPage == 10
None == -1000

THERMO == "THERMO"
SUN == "SUN"
DROP == "DROP"
WIND == "WIND"
NL2 == "\\n\\n"
BAR == " | "

Statuses == {200, 404, 503}

\* start_latlng in the details response: -1 is a missing or null field,
\* otherwise the length of the list
LatLngs == {-1, 0, 1, 2}

Min(a, b) == IF a < b THEN a ELSE b

Range(s) == {s[i] : i \in 1..Len(s)}

RECURSIVE Join(_, _)
Join(parts, sep) ==
    IF parts = <<>> THEN <<>>
    ELSE IF Len(parts) = 1 THEN parts[1]
    ELSE parts[1] \o <<sep>> \o Join(Tail(parts), sep)

\* f"{x:.1f}" of a value held in tenths
Fmt1f(x) ==
    IF x < 0 THEN "-" \o ToString((-x) \div 10) \o "." \o ToString((-x) % 10)
    ELSE ToString(x \div 10) \o "." \o ToString(x % 10)

\* ------------------------------------------------------ pure functions
weather_codes ==
    { <<0, "Clear sky">>, <<1, "Mainly clear">>, <<2, "Partly cloudy">>,
      <<3, "Overcast">>, <<45, "Foggy">>, <<48, "Depositing rime fog">>,
      <<51, "Light drizzle">>, <<53, "Moderate drizzle">>,
      <<55, "Dense drizzle">>, <<61, "Slight rain">>, <<63, "Moderate rain">>,
      <<65, "Heavy rain">>, <<71, "Slight snow">>, <<73, "Moderate snow">>,
      <<75, "Heavy snow">>, <<77, "Snow grains">>,
      <<80, "Slight rain showers">>, <<81, "Moderate rain showers">>,
      <<82, "Violent rain showers">>, <<85, "Slight snow showers">>,
      <<86, "Heavy snow showers">>, <<95, "Thunderstorm">>,
      <<96, "Thunderstorm with slight hail">>,
      <<99, "Thunderstorm with heavy hail">> }

weather_code_to_description(code) ==
    IF \E e \in weather_codes : e[1] = code
    THEN (CHOOSE e \in weather_codes : e[1] = code)[2]
    ELSE "Unknown"

\* weather_data is None (isNone) or a dict of four values, each maybe None
NoWeatherData ==
    [isNone |-> TRUE, temperature |-> None, humidity |-> None,
     wind_speed |-> None, weather_code |-> None]

\* the body of get_weather_data after raise_for_status: hourly is whether
\* the response carries a non-empty "hourly" object, rec its values at the
\* activity's hour (a missing array reads as None)
extract_weather_data(hourly, rec) ==
    IF ~hourly THEN NoWeatherData
    ELSE [isNone |-> FALSE, temperature |-> rec.temperature,
          humidity |-> rec.humidity, wind_speed |-> rec.wind_speed,
          weather_code |-> rec.weather_code]

format_weather_string_slip(w) ==
    IF w.isNone THEN <<>>
    ELSE LET v(x) == IF x = None THEN 0 ELSE x
         IN Join(<< <<SUN, weather_code_to_description(v(w.weather_code))>>,
                    <<THERMO, Fmt1f(v(w.temperature)), "C">>,
                    <<DROP, ToString(v(w.humidity)), "%">>,
                    <<WIND, Fmt1f(v(w.wind_speed)), "km/h">> >>, BAR)

\* the empty sequence stands for the None that format_weather_string returns
format_weather_string(w) ==
    IF w.isNone THEN <<>>
    ELSE LET p1 == IF w.weather_code # None
                   THEN << <<SUN, weather_code_to_description(w.weather_code)>> >>
                   ELSE <<>>
             p2 == IF w.temperature # None
                   THEN << <<THERMO, Fmt1f(w.temperature), "C">> >>
                   ELSE <<>>
             p3 == IF w.humidity # None
                   THEN << <<DROP, ToString(w.humidity), "%">> >>
                   ELSE <<>>
             p4 == IF w.wind_speed # None
                   THEN << <<WIND, Fmt1f(w.wind_speed), "km/h">> >>
                   ELSE <<>>
         IN Join(p1 \o p2 \o p3 \o p4, BAR)

\* a description is None (present = FALSE) or a string
Truthy(d) == d.present /\ d.text # <<>>

has_weather_info_never(d) == FALSE

\* update_activity_description's guard
has_weather_info(d) == Truthy(d) /\ THERMO \in Range(d.text)

compose_description_replace(d, ws) == ws

compose_description(d, ws) ==
    IF Truthy(d) THEN d.text \o <<NL2>> \o ws ELSE ws

no_gps_empty_only(latlng) == latlng < 1

\* "not start_latlng or len(start_latlng) < 2"
no_gps(latlng) == latlng = -1 \/ latlng = 0 \/ latlng < 2

current_activity_reversed(acts, i) == acts[Len(acts) + 1 - i]

\* "for activity in activities": the id of the i-th activity of the listing
current_activity(acts, i) == acts[i]

\* the server, not the program: the first per_page activities
ServerPage(all, per_page) == SubSeq(all, 1, Min(per_page, Len(all)))

\* ----------------------------------------------------------------- state
NoDetails == [latlng |-> -1, description |-> [present |-> FALSE, text |-> <<>>]]

Ev(kind, id, status, latlng, hourly, body) ==
    [kind |-> kind, id |-> id, status |-> status, latlng |-> latlng,
     hourly |-> hourly, body |-> body]

Descending(n) == [i \in 1..n |-> n + 1 - i]
Ascending(n) == [i \in 1..n |-> i]

InitDescs ==
    { [present |-> FALSE, text |-> <<>>],
      [present |-> TRUE, text |-> <<>>],
      [present |-> TRUE, text |-> <<"Morning ride">>],
      [present |-> TRUE, text |-> <<"Hot", THERMO, "today">>] }

\* the archive's values at the start hour, each one possibly null; the
\* archive is historical data, so every request of a behaviour reads the same
\* values.  Temperature and wind speed are held in tenths.
Observations ==
    [temperature : {None, 183}, humidity : {None, 65},
     wind_speed : {None, 120}, weather_code : {None, 0}]

InitLocals ==
    /\ run = 1
    /\ pc = "start"
    /\ activities = <<>>
    /\ idx = 0
    /\ details = NoDetails
    /\ weather_string = <<>>
    /\ trace = <<>>

\* what is out there when a run starts: n activities, newest first, with
\* their descriptions, and the archive's values for the start hour
Remote(n) ==
    /\ remote = Descending(n)
    /\ desc \in [1..n -> InitDescs]
    /\ putBy = [a \in 1..n |-> {}]
    /\ wx \in Observations

\* one run of main()
Init ==
    /\ \E n \in 0..MaxActs : Remote(n)
    /\ InitLocals

\* the script run again and again against the same account
InitRuns ==
    /\ \E n \in 0..MaxRunActs : Remote(n)
    /\ InitLocals

InitList ==
    /\ \E n \in 0..MaxRemote :
         /\ remote \in {Descending(n), Ascending(n)}
         /\ desc = [a \in 1..n |-> [present |-> TRUE, text |-> <<>>]]
         /\ putBy = [a \in 1..n |-> {}]
    /\ wx = [temperature |-> 183, humidity |-> 65, wind_speed |-> 120,
             weather_code |-> 0]
    /\ InitLocals

\* --------------------------------------------------------------- actions
\* main, lines 175-182
check_environment ==
    /\ pc = "start"
    /\ \E envOk \in BOOLEAN : pc' = IF envOk THEN "refresh" ELSE "exit1"
    /\ UNCHANGED <<remote, desc, wx, run, activities, idx, details,
                   weather_string, trace, putBy>>

\* refresh_strava_token and main, lines 184-188
refresh_strava_token ==
    /\ pc = "refresh"
    /\ \E st \in Statuses :
         /\ trace' = Append(trace, Ev("token", 0, st, -1, FALSE, <<>>))
         /\ pc' = IF st >= 400 THEN "crashed" ELSE "list"
    /\ UNCHANGED <<remote, desc, wx, run, activities, idx, details,
                   weather_string, putBy>>

get_recent_activities_default ==
    /\ pc = "list"
    /\ \E st \in Statuses :
         /\ trace' = Append(trace, Ev("list", 0, st, -1, FALSE, <<>>))
         /\ IF st >= 400
            THEN /\ pc' = "crashed"
                 /\ UNCHANGED <<activities, idx>>
            ELSE /\ activities' = ServerPage(remote, DefaultPerPage)
                 /\ idx' = 1
                 /\ pc' = "loop"
    /\ UNCHANGED <<remote, desc, wx, run, details, weather_string, putBy>>

get_recent_activities_retry ==
    /\ pc = "list"
    /\ \E st \in Statuses :
         /\ trace' = Append(trace, Ev("list", 0, st, -1, FALSE, <<>>))
         /\ IF st >= 500 /\ Cardinality({i \in 1..Len(trace) : trace[i].kind = "list"}) < 2
            THEN /\ pc' = "list"
                 /\ UNCHANGED <<activities, idx>>
            ELSE IF st >= 400
            THEN /\ pc' = "crashed"
                 /\ UNCHANGED <<activities, idx>>
            ELSE /\ activities' = ServerPage(remote, PerPage)
                 /\ idx' = 1
                 /\ pc' = "loop"
    /\ UNCHANGED <<remote, desc, wx, run, details, weather_string, putBy>>

\* get_recent_activities and main, lines 190-193: one GET with per_page=5,
\* raise_for_status, the JSON body returned as it is
get_recent_activities ==
    /\ pc = "list"
    /\ \E st \in Statuses :
         /\ trace' = Append(trace, Ev("list", 0, st, -1, FALSE, <<>>))
         /\ IF st >= 400
            THEN /\ pc' = "crashed"
                 /\ UNCHANGED <<activities, idx>>
            ELSE /\ activities' = ServerPage(remote, PerPage)
                 /\ idx' = 1
                 /\ pc' = "loop"
    /\ UNCHANGED <<remote, desc, wx, run, details, weather_string, putBy>>

\* the next run of the script (a scheduled job): locals start afresh
new_run ==
    /\ pc \in {"done", "crashed", "exit1"}
    /\ run < MaxRuns
    /\ run' = run + 1
    /\ pc' = "start"
    /\ activities' = <<>>
    /\ idx' = 0
    /\ details' = NoDetails
    /\ weather_string' = <<>>
    /\ trace' = <<>>
    /\ UNCHANGED <<remote, desc, wx, putBy>>

\* main, lines 196-212: the next activity of the listing, its details, the
\* coordinate check.  The locals of the previous iteration are dead here and
\* are overwritten before they are read again.
get_activity_details ==
    /\ pc = "loop"
    /\ idx <= Len(activities)
    /\ LET activity_id == current_activity(activities, idx) IN
       \E st \in Statuses, start_latlng \in LatLngs :
         IF st >= 400
         THEN /\ trace' = Append(trace,
                     Ev("details", activity_id, st, -1, FALSE, <<>>))
              /\ pc' = "crashed"
              /\ UNCHANGED <<idx, details>>
         ELSE /\ trace' = Append(trace,
                     Ev("details", activity_id, st, start_latlng, FALSE,
                        desc[activity_id].text))
              /\ IF no_gps(start_latlng)
                 THEN /\ idx' = idx + 1
                      /\ pc' = "loop"
                      /\ details' = NoDetails
                 ELSE /\ pc' = "weather"
                      /\ details' = [latlng |-> start_latlng,
                                     description |-> desc[activity_id]]
                      /\ UNCHANGED idx
    /\ weather_string' = <<>>
    /\ UNCHANGED <<remote, desc, wx, run, activities, putBy>>

get_weather_data_marker_first ==
    /\ pc = "weather"
    /\ LET activity_id == current_activity(activities, idx) IN
       IF has_weather_info(details.description)
       THEN /\ trace' = Append(trace,
                   Ev("skip", activity_id, 0, -1, FALSE, <<>>))
            /\ idx' = idx + 1
            /\ pc' = "loop"
            /\ details' = NoDetails
            /\ weather_string' = <<>>
       ELSE
       \E st \in Statuses, hourly \in BOOLEAN :
         IF st >= 400
         THEN /\ trace' = Append(trace,
                     Ev("weather", activity_id, st, -1, FALSE, <<>>))
              /\ pc' = "crashed"
              /\ UNCHANGED <<idx, details, weather_string>>
         ELSE LET weather_data == extract_weather_data(hourly, wx)
                  ws == format_weather_string(weather_data)
              IN /\ trace' = Append(trace,
                        Ev("weather", activity_id, st, -1, hourly, ws))
                 /\ IF weather_data.isNone \/ ws = <<>>
                    THEN /\ idx' = idx + 1
                         /\ pc' = "loop"
                         /\ details' = NoDetails
                         /\ weather_string' = <<>>
                    ELSE /\ pc' = "update"
                         /\ weather_string' = ws
                         /\ UNCHANGED <<idx, details>>
    /\ UNCHANGED <<remote, desc, wx, run, activities, putBy>>

\* get_weather_data and main, lines 214-228
get_weather_data ==
    /\ pc = "weather"
    /\ LET activity_id == current_activity(activities, idx) IN
       \E st \in Statuses, hourly \in BOOLEAN :
         IF st >= 400
         THEN /\ trace' = Append(trace,
                     Ev("weather", activity_id, st, -1, FALSE, <<>>))
              /\ pc' = "crashed"
              /\ UNCHANGED <<idx, details, weather_string>>
         ELSE LET weather_data == extract_weather_data(hourly, wx)
                  ws == format_weather_string(weather_data)
              IN /\ trace' = Append(trace,
                        Ev("weather", activity_id, st, -1, hourly, ws))
                 /\ IF weather_data.isNone \/ ws = <<>>
                    THEN /\ idx' = idx + 1
                         /\ pc' = "loop"
                         /\ details' = NoDetails
                         /\ weather_string' = <<>>
                    ELSE /\ pc' = "update"
                         /\ weather_string' = ws
                         /\ UNCHANGED <<idx, details>>
    /\ UNCHANGED <<remote, desc, wx, run, activities, putBy>>

\* update_activity_description and main, lines 230-233
update_activity_description ==
    /\ pc = "update"
    /\ LET activity_id == current_activity(activities, idx)
           existing_description == details.description
       IN IF has_weather_info(existing_description)
          THEN /\ trace' = Append(trace,
                      Ev("skip", activity_id, 0, -1, FALSE, <<>>))
               /\ idx' = idx + 1
               /\ pc' = "loop"
               /\ details' = NoDetails
               /\ weather_string' = <<>>
               /\ UNCHANGED <<desc, putBy>>
          ELSE LET new_description ==
                       compose_description(existing_description, weather_string)
               IN \E st \in Statuses :
                    /\ trace' = Append(trace,
                           Ev("put", activity_id, st, -1, FALSE, new_description))
                    /\ IF st >= 400
                       THEN /\ pc' = "crashed"
                            /\ UNCHANGED <<desc, putBy, idx, details,
                                           weather_string>>
                       ELSE /\ desc' = [desc EXCEPT ![activity_id] =
                                   [present |-> TRUE, text |-> new_description]]
                            /\ putBy' = [putBy EXCEPT ![activity_id] = @ \cup {run}]
                            /\ idx' = idx + 1
                            /\ pc' = "loop"
                            /\ details' = NoDetails
                            /\ weather_string' = <<>>
    /\ UNCHANGED <<remote, wx, run, activities>>

\* main, line 235: the loop is exhausted, "Done!"
done ==
    /\ pc = "loop"
    /\ idx > Len(activities)
    /\ pc' = "done"
    /\ UNCHANGED <<remote, desc, wx, run, activities, idx, details,
                   weather_string, trace, putBy>>

Next ==
    \/ check_environment
    \/ refresh_strava_token
    \/ get_recent_activities
    \/ get_activity_details
    \/ get_weather_data
    \/ update_activity_description
    \/ done

Spec == Init /\ [][Next]_vars

NextRuns ==
    \/ check_environment
    \/ refresh_strava_token
    \/ get_recent_activities
    \/ get_activity_details
    \/ get_weather_data
    \/ update_activity_description
    \/ done
    \/ new_run

SpecRuns == InitRuns /\ [][NextRuns]_vars

NextList ==
    \/ check_environment
    \/ refresh_strava_token
    \/ get_recent_activities
    \/ new_run

SpecList == InitList /\ [][NextList]_vars

\* ------------------------------------------------- reading the run's trace
Marked(text) == \E k \in 1..Len(text) : text[k] = "THERMO"

Kind(k) == {i \in 1..Len(trace) : trace[i].kind = k}

About(id) == {i \in 1..Len(trace) : trace[i].id = id}

ActivityEvents == Kind("details") \cup Kind("weather") \cup Kind("skip") \cup Kind("put")

\* the successful details response of the activity that event j is about
DetailsBefore(j) ==
    CHOOSE i \in Kind("details") \cap About(trace[j].id) : i < j

WeatherBefore(j) ==
    CHOOSE i \in Kind("weather") \cap About(trace[j].id) : i < j

PosIn(acts, id) == CHOOSE k \in 1..Len(acts) : acts[k] = id

AllAbsent(o) ==
    /\ o.temperature = None
    /\ o.humidity = None
    /\ o.wind_speed = None
    /\ o.weather_code = None

\* ------------------------------------------------------------------ claims

\* C1: idempotence across runs: an activity that one run updated is not
\* updated again by a later run, so its description after the second run is
\* the one it had after the first.
C1_Idempotent == \A a \in DOMAIN putBy : Cardinality(putBy[a]) <= 1

\* C2: marker guard: a description that contains the marker is never changed,
\* in this run or a later one, and update_activity_description called with
\* such a description issues no PUT and returns False (the "skip" event).
C2_MarkerGuard ==
    [][ /\ \A a \in DOMAIN desc :
             (desc[a].present /\ Marked(desc[a].text)) => desc'[a] = desc[a]
        /\ (pc = "update" /\ details.description.present
                          /\ Marked(details.description.text))
             => /\ Len(trace') = Len(trace) + 1
                /\ trace'[Len(trace')].kind = "skip"
                /\ desc' = desc
                /\ pc' = "loop" ]_vars

C2_Witness ==
    /\ run = 2
    /\ \E i \in Kind("skip") :
         /\ Marked(desc[trace[i].id].text)
         /\ putBy[trace[i].id] = {1}

\* C3: no-GPS skip: after a details response whose start_latlng is absent,
\* empty or shorter than two, the run issues no weather and no update request
\* for that activity and goes on with the next activity of the listing.
C3_NoGpsSkip ==
    \A i \in Kind("details") :
       (trace[i].status = 200 /\ trace[i].latlng \in {-1, 0, 1}) =>
          /\ \A j \in About(trace[i].id) : trace[j].kind = "details"
          /\ i < Len(trace) => /\ trace[i + 1].kind = "details"
                               /\ trace[i + 1].id # trace[i].id
          /\ i = Len(trace) => /\ pc \in {"loop", "done"}
                               /\ idx = PosIn(activities, trace[i].id) + 1

C3_Witness ==
    \E i \in Kind("details") :
       /\ trace[i].status = 200
       /\ trace[i].latlng = 1
       /\ i < Len(trace)
       /\ Kind("put") # {}

\* C4: append-only composition: the description of every PUT is the old
\* description, the separator, then the weather block; with an empty or
\* absent old description it is the weather block alone.  A successful PUT
\* makes it the remote description.
C4_AppendOnly ==
    \A j \in Kind("put") :
       LET old == trace[DetailsBefore(j)].body
           block == trace[WeatherBefore(j)].body
           new == trace[j].body
       IN /\ block # <<>>
          /\ Len(new) >= Len(old)
          /\ SubSeq(new, 1, Len(old)) = old
          /\ IF old = <<>> THEN new = block
             ELSE new = old \o <<"\\n\\n">> \o block
          /\ trace[j].status = 200 => desc[trace[j].id].text = new

C4_Witness ==
    \E j \in Kind("put") :
       /\ trace[j].status = 200
       /\ trace[DetailsBefore(j)].body = <<"Morning ride">>
       /\ Len(trace[j].body) > 3

\* C5: best-effort loop: an HTTP error of the weather fetch or of the update
\* does not end the run; the activity is skipped and the loop goes on.
C5_BestEffort ==
    \A i \in Kind("weather") \cup Kind("put") :
       trace[i].status >= 400 => pc # "crashed"

\* C6 (as stated): a listing request answered with a 5xx status is retried,
\* so the listing fails only on a non-5xx error or after three attempts.
C6_RetryOn5xx ==
    (pc = "crashed" /\ trace # <<>> /\ trace[Len(trace)].kind = "list") =>
       \/ trace[Len(trace)].status < 500
       \/ Cardinality(Kind("list")) = 3

\* C6 (amended): the listing request is made once per run; any error status,
\* 5xx included, ends the run at once with no retry and no activities.
C6_NoRetry ==
    /\ Cardinality(Kind("list")) <= 1
    /\ \A i \in Kind("list") :
          trace[i].status >= 400 =>
             /\ i = Len(trace)
             /\ pc = "crashed"
             /\ activities = <<>>

C6_Witness ==
    /\ pc = "crashed"
    /\ \E i \in Kind("list") : trace[i].status = 503

\* C7 (as stated): the lister stops asking for pages only when the last page
\* was empty or the accumulated count has reached the maximum, and returns
\* the first min(maximum, total) activities in remote order.  The code makes
\* one request, so the accumulated activities are its last page.
C7_PagesUntilEmptyOrMax ==
    pc = "loop" =>
       /\ (activities = <<>> \/ Len(activities) >= 5)
       /\ activities = SubSeq(remote, 1, Min(5, Len(remote)))

\* C7 (amended): a successful listing is one request with per_page = 5 whose
\* response is returned as it is: the first min(5, total) activities in
\* remote order; no second page is asked for.
C7_SinglePage ==
    pc = "loop" =>
       /\ Cardinality(Kind("list")) = 1
       /\ Len(activities) = Min(5, Len(remote))
       /\ \A k \in 1..Len(activities) : activities[k] = remote[k]

C7_Witness ==
    /\ pc = "loop"
    /\ Len(remote) = 7
    /\ Len(activities) = 5
    /\ activities[1] = 7

\* C8 (as stated): no weather request is issued for an activity whose
\* description already contains the marker.
C8_NoWeatherForMarked ==
    \A j \in Kind("weather") : ~Marked(trace[DetailsBefore(j)].body)

\* C8 (amended): the marker check comes after the weather fetch: an activity
\* with coordinates gets its weather request whether or not its description
\* contains the marker, the skip for the marker follows a weather response
\* with data, and no update request is issued for a marked description.
C8_CheckAfterWeather ==
    /\ \A i \in Kind("details") :
          (trace[i].status = 200 /\ trace[i].latlng = 2) =>
             /\ i < Len(trace) => /\ trace[i + 1].kind = "weather"
                                  /\ trace[i + 1].id = trace[i].id
             /\ i = Len(trace) => pc = "weather"
             /\ Marked(trace[i].body) =>
                   \A j \in About(trace[i].id) : trace[j].kind # "put"
    /\ \A j \in Kind("skip") :
          /\ j > 1
          /\ trace[j - 1].kind = "weather"
          /\ trace[j - 1].id = trace[j].id
          /\ trace[j - 1].status = 200
          /\ trace[j - 1].body # <<>>
          /\ Marked(trace[DetailsBefore(j)].body)

C8_Witness ==
    \E j \in Kind("skip") :
       /\ trace[j - 1].kind = "weather"
       /\ Marked(trace[DetailsBefore(j)].body)
       /\ j < Len(trace)

\* C9: sequential ordering: the k-th activity handled is the k-th of the
\* listing, the requests never go back to an earlier activity (each request
\* is for the same activity as the one before it or for a later one), and an
\* update request follows a weather response with data for the same activity.
C9_Sequential ==
    /\ \A i \in ActivityEvents :
          /\ trace[i].id \in Range(activities)
          /\ PosIn(activities, trace[i].id) =
                Cardinality({d \in Kind("details") : d <= i})
    /\ \A i \in ActivityEvents :
          (i + 1) \in ActivityEvents =>
             PosIn(activities, trace[i].id) <= PosIn(activities, trace[i + 1].id)
    /\ \A j \in Kind("put") :
          \E i \in Kind("weather") \cap About(trace[j].id) :
             /\ i = j - 1
             /\ trace[i].status = 200
             /\ trace[i].hourly
             /\ trace[i].body # <<>>

C9_Witness ==
    /\ Cardinality(Kind("put")) >= 2
    /\ pc = "done"

\* C10: empty observation means no write: a weather response without hourly
\* data, or with all four values absent, gives no weather string and no
\* update request for the activity; a weather string has a part for a value
\* exactly when the value is present.
C10_EmptyMeansNoWrite ==
    \A i \in Kind("weather") :
       trace[i].status = 200 =>
          /\ (~trace[i].hourly \/ AllAbsent(wx)) =>
                /\ trace[i].body = <<>>
                /\ \A j \in About(trace[i].id) : trace[j].kind # "put"
                /\ i = Len(trace) => pc \in {"loop", "done"}
          /\ trace[i].hourly =>
                /\ ("SUN" \in Range(trace[i].body)) <=> (wx.weather_code # None)
                /\ ("THERMO" \in Range(trace[i].body)) <=> (wx.temperature # None)
                /\ ("DROP" \in Range(trace[i].body)) <=> (wx.humidity # None)
                /\ ("WIND" \in Range(trace[i].body)) <=> (wx.wind_speed # None)
                /\ "0.0" \notin Range(trace[i].body)

C10_Witness ==
    /\ \E i \in Kind("weather") :
          trace[i].status = 200 /\ trace[i].hourly /\ AllAbsent(wx)
    /\ pc = "done"
    /\ Len(activities) >= 1
====
